---- MODULE Spec2Model ----
(***************************************************************************)
(* chisel_optimize_vorbis (libchisel/rust_bridge/src/lib.rs): the C-ABI    *)
(* bridge that opens an input file, creates/truncates an output file and   *)
(* hands both to the OptiVorbis OggToOgg remuxer.                          *)
(*                                                                         *)
(* The model is a small-step machine.  Each thread runs calls of the       *)
(* bridge; every system call the call makes (open, create, read, write,    *)
(* close) is one step, so that calls on different threads interleave at    *)
(* the granularity the operating system gives them.                       *)
(***************************************************************************)
EXTENDS Integers, Sequences, FiniteSets, TLC

VARIABLES
    fs,         \* the filesystem: path -> file contents, for the files that exist
    handles,    \* the open file handles: records [owner, kind, path, pos]
    pc,         \* pc[t]: where thread t is in chisel_optimize_vorbis
    input_path, \* input_path[t]: the first pointer argument of t's call
    output_path,\* output_path[t]: the second pointer argument of t's call
    input_str,  \* input_str[t]: the decoded input path (line 17)
    output_str, \* output_str[t]: the decoded output path (line 21)
    buf,        \* buf[t]: the packet the engine has read and not yet written
    ret,        \* ret[t]: the c_int the call returns
    pre,        \* pre[t]: the filesystem as it was when t's call was entered
    prev,       \* prev[t]: arguments and status of t's previous call
    lastClose,  \* the thread that most recently closed an output handle
    ncalls      \* number of calls entered so far

vars == <<fs, handles, pc, input_path, output_path, input_str, output_str,
          buf, ret, pre, prev, lastClose, ncalls>>

(***************************************************************************)
(* Bounds                                                                  *)
(***************************************************************************)
\* calls a thread makes one after the other in the sequential specification
MaxCalls == 2

Threads == {"t1", "t2"}

(***************************************************************************)
(* The caller's memory: addresses of NUL-terminated byte strings.  Address *)
(* 0 is the null pointer.                                                  *)
(***************************************************************************)
NullPtr == 0

PathA   == <<97>>               \* "a"
PathB   == <<98>>               \* "b"
PathC   == <<99>>               \* "c"
PathE   == <<195, 169>>         \* "e" with acute accent, two-byte UTF-8
PathSub == <<120, 47, 97>>      \* "x/a": the directory x does not exist
BadStr  == <<97, 255>>          \* 0xFF never occurs in UTF-8

Memory == <<PathA, PathB, PathC, PathE, PathSub, BadStr>>

Pointers == {NullPtr} \cup DOMAIN Memory

CStrings == {Memory[a] : a \in DOMAIN Memory}

(***************************************************************************)
(* Status codes of the bridge                                              *)
(***************************************************************************)
OK_STATUS       == 0
ERR_NULL        == -1
ERR_UTF8        == -2
ERR_INPUT_OPEN  == -3
ERR_OUTPUT_OPEN == -4
ERR_REMUX       == -5

NoRet == 1      \* the call has not decided its status yet (no c_int the code returns)

(***************************************************************************)
(* Pointer handling, lines 12-24                                           *)
(***************************************************************************)
\* ptr.is_null()
is_null(p) == p = NullPtr

\* the guard written with "and": a call with one null pointer is let through
NullArgBoth(ip, op) == is_null(ip) /\ is_null(op)

\* line 12: the guard of the early return
NullArg(ip, op) == is_null(ip) \/ is_null(op)

\* unsafe { CStr::from_ptr(p) }: the strings the call can see behind p.  For a
\* null pointer the read is undefined behaviour: any byte string may result.
from_ptr(p) == IF is_null(p) THEN CStrings ELSE {Memory[p]}

\* UTF-8 validation as CStr::to_str does it, for one- and two-byte sequences:
\* 0x00-0x7F stands alone, 0xC2-0xDF needs one continuation byte 0x80-0xBF,
\* everything else the model's strings contain (0xFF) is invalid.
RECURSIVE Utf8From(_, _)
Utf8From(s, i) ==
    IF i > Len(s) THEN TRUE
    ELSE IF s[i] < 128 THEN Utf8From(s, i + 1)
    ELSE IF s[i] >= 194 /\ s[i] <= 223
         THEN /\ i + 1 <= Len(s)
              /\ s[i + 1] >= 128 /\ s[i + 1] <= 191
              /\ Utf8From(s, i + 2)
    ELSE FALSE

\* c.to_str().is_ok()
to_str_ok(c) == Utf8From(c, 1)

(***************************************************************************)
(* The filesystem                                                          *)
(***************************************************************************)
Slash == 47

\* the directories that exist: only the working directory, named by the
\* empty prefix
RECURSIVE LastSlash(_, _)
LastSlash(p, i) == IF i = 0 THEN 0 ELSE IF p[i] = Slash THEN i ELSE LastSlash(p, i - 1)

ParentDir(p) == SubSeq(p, 1, LastSlash(p, Len(p)))

ExistingDirs == {<<>>}

Exists(f, p) == p \in DOMAIN f

\* File::open(p) succeeds: the file exists (and then is readable)
CanOpen(f, p) == Exists(f, p)

\* the files the process has no permission to write
WriteProtected == {PathB}

\* File::create(p) succeeds: the file exists and may be written, or it does
\* not exist and its parent directory does
CanCreate(f, p) ==
    IF Exists(f, p) THEN p \notin WriteProtected ELSE ParentDir(p) \in ExistingDirs

\* the filesystem after File::create(p): p exists and is empty
Truncated(f, p) == [q \in DOMAIN f \cup {p} |-> IF q = p THEN <<>> ELSE f[q]]

\* the filler a file gets where a write lands beyond its end
ZeroFill == "z"

\* a handle opened in append mode: every write lands at the end of the file
WriteAppend(data, pos, pkt) == Append(data, pkt)

\* the contents of a file after one packet is written at offset pos (0-based)
WriteAt(data, pos, pkt) ==
    [i \in 1..(IF pos + 1 > Len(data) THEN pos + 1 ELSE Len(data)) |->
        IF i = pos + 1 THEN pkt
        ELSE IF i <= Len(data) THEN data[i]
        ELSE ZeroFill]

(***************************************************************************)
(* The remuxing engine, OggToOgg::new_with_defaults().remux(in, out)       *)
(* A container is a sequence of packets.                                   *)
(***************************************************************************)
RawPackets == {"a", "b", "c"}
OptPackets == {"A", "B", "C"}
ValidPackets == RawPackets \cup OptPackets
Corrupt == "x"

\* the packet the engine writes for a valid packet it has read
Optimize(pkt) ==
    CASE pkt = "a" -> "A"
      [] pkt = "b" -> "B"
      [] pkt = "c" -> "C"
      [] OTHER -> pkt

NoPacket == "-"

\* match remuxer.remux(..) { Ok(_) => 0, Err(_) => -5 }
RemuxStatus(ok) == IF ok THEN OK_STATUS ELSE ERR_REMUX

(***************************************************************************)
(* Handles                                                                 *)
(***************************************************************************)
HandlesOf(t, k) == {h \in handles : h.owner = t /\ h.kind = k}

TheHandle(t, k) == CHOOSE h \in HandlesOf(t, k) : TRUE

NewHandle(t, k, p) == [owner |-> t, kind |-> k, path |-> p, pos |-> 0]

Advance(h) == [h EXCEPT !.pos = h.pos + 1]

(***************************************************************************)
(* Initial state                                                           *)
(***************************************************************************)
\* the filesystems a run may start from: valid containers of different
\* lengths, a container with a corrupt packet, an empty file, absent files
InitFS ==
    { (PathA :> <<"a", "b">>) @@ (PathB :> <<"c">>) @@ (PathC :> <<"a", "x", "b">>),
      (PathA :> <<"a", "b", "c">>) @@ (PathB :> <<"b">>) @@ (PathE :> <<>>) }

NoCall == [inp |-> NullPtr, out |-> NullPtr, status |-> NoRet]

Init ==
    /\ fs \in InitFS
    /\ handles = {}
    /\ pc = [t \in Threads |-> "idle"]
    /\ input_path = [t \in Threads |-> NullPtr]
    /\ output_path = [t \in Threads |-> NullPtr]
    /\ input_str = [t \in Threads |-> <<>>]
    /\ output_str = [t \in Threads |-> <<>>]
    /\ buf = [t \in Threads |-> NoPacket]
    /\ ret = [t \in Threads |-> NoRet]
    /\ pre = [t \in Threads |-> fs]
    /\ prev = [t \in Threads |-> NoCall]
    /\ lastClose = "none"
    /\ ncalls = 0

(***************************************************************************)
(* The steps of one call                                                   *)
(***************************************************************************)
\* the caller enters chisel_optimize_vorbis(ip, op)
Enter(t, ip, op) ==
    /\ pc' = [pc EXCEPT ![t] = "check_null"]
    /\ input_path' = [input_path EXCEPT ![t] = ip]
    /\ output_path' = [output_path EXCEPT ![t] = op]
    /\ input_str' = [input_str EXCEPT ![t] = <<>>]
    /\ output_str' = [output_str EXCEPT ![t] = <<>>]
    /\ buf' = [buf EXCEPT ![t] = NoPacket]
    /\ ret' = [ret EXCEPT ![t] = NoRet]
    /\ pre' = [pre EXCEPT ![t] = fs]
    /\ prev' = [prev EXCEPT ![t] =
                   [inp |-> input_path[t], out |-> output_path[t], status |-> ret[t]]]
    /\ ncalls' = ncalls + 1
    /\ UNCHANGED <<fs, handles, lastClose>>

\* a thread calls the bridge once, concurrently with the other thread
Call(t) ==
    /\ pc[t] = "idle"
    /\ \E ip \in Pointers, op \in Pointers : Enter(t, ip, op)

\* a thread calls the bridge again and again while no other thread is in a call
SeqCall(t) ==
    /\ pc[t] \in {"idle", "returned"}
    /\ \A u \in Threads \ {t} : pc[u] = "idle"
    /\ ncalls < MaxCalls
    /\ \E ip \in Pointers, op \in Pointers : Enter(t, ip, op)

\* line 12
CheckNull(t) ==
    /\ pc[t] = "check_null"
    /\ IF NullArg(input_path[t], output_path[t])
       THEN /\ ret' = [ret EXCEPT ![t] = ERR_NULL]
            /\ pc' = [pc EXCEPT ![t] = "returned"]
       ELSE /\ pc' = [pc EXCEPT ![t] = "decode"]
            /\ UNCHANGED ret
    /\ UNCHANGED <<fs, handles, input_path, output_path, input_str, output_str,
                   buf, pre, prev, lastClose, ncalls>>

\* only the input path is validated before the files are opened
DecodeInputOnly(t) ==
    /\ pc[t] = "decode"
    /\ \E input_c \in from_ptr(input_path[t]), output_c \in from_ptr(output_path[t]) :
         IF ~to_str_ok(input_c)
         THEN /\ ret' = [ret EXCEPT ![t] = ERR_UTF8]
              /\ pc' = [pc EXCEPT ![t] = "returned"]
              /\ UNCHANGED <<input_str, output_str>>
         ELSE /\ input_str' = [input_str EXCEPT ![t] = input_c]
              /\ output_str' = [output_str EXCEPT ![t] = output_c]
              /\ pc' = [pc EXCEPT ![t] = "open"]
              /\ UNCHANGED ret
    /\ UNCHANGED <<fs, handles, input_path, output_path, buf, pre, prev,
                   lastClose, ncalls>>

\* the decoded paths are kept in process-wide buffers that all calls share
DecodeShared(t) ==
    /\ pc[t] = "decode"
    /\ \E input_c \in from_ptr(input_path[t]), output_c \in from_ptr(output_path[t]) :
         IF ~to_str_ok(input_c) \/ ~to_str_ok(output_c)
         THEN /\ ret' = [ret EXCEPT ![t] = ERR_UTF8]
              /\ pc' = [pc EXCEPT ![t] = "returned"]
              /\ UNCHANGED <<input_str, output_str>>
         ELSE /\ input_str' = [u \in Threads |-> input_c]
              /\ output_str' = [u \in Threads |-> output_c]
              /\ pc' = [pc EXCEPT ![t] = "open"]
              /\ UNCHANGED ret
    /\ UNCHANGED <<fs, handles, input_path, output_path, buf, pre, prev,
                   lastClose, ncalls>>

\* lines 14-24
Decode(t) ==
    /\ pc[t] = "decode"
    /\ \E input_c \in from_ptr(input_path[t]), output_c \in from_ptr(output_path[t]) :
         IF ~to_str_ok(input_c) \/ ~to_str_ok(output_c)
         THEN /\ ret' = [ret EXCEPT ![t] = ERR_UTF8]
              /\ pc' = [pc EXCEPT ![t] = "returned"]
              /\ UNCHANGED <<input_str, output_str>>
         ELSE /\ input_str' = [input_str EXCEPT ![t] = input_c]
              /\ output_str' = [output_str EXCEPT ![t] = output_c]
              /\ pc' = [pc EXCEPT ![t] = "open"]
              /\ UNCHANGED ret
    /\ UNCHANGED <<fs, handles, input_path, output_path, buf, pre, prev,
                   lastClose, ncalls>>

\* the output is created before the input is opened
OpenAfterCreate(t) ==
    /\ pc[t] = "open"
    /\ IF ~CanCreate(fs, output_str[t])
       THEN /\ ret' = [ret EXCEPT ![t] = ERR_OUTPUT_OPEN]
            /\ pc' = [pc EXCEPT ![t] = "returned"]
            /\ UNCHANGED <<fs, handles>>
       ELSE /\ fs' = Truncated(fs, output_str[t])
            /\ IF CanOpen(fs', input_str[t])
               THEN /\ handles' = handles \cup {NewHandle(t, "in", input_str[t]),
                                                 NewHandle(t, "out", output_str[t])}
                    /\ pc' = [pc EXCEPT ![t] = "remux_read"]
                    /\ UNCHANGED ret
               ELSE /\ handles' = handles \cup {NewHandle(t, "out", output_str[t])}
                    /\ ret' = [ret EXCEPT ![t] = ERR_INPUT_OPEN]
                    /\ pc' = [pc EXCEPT ![t] = "drop_out"]
    /\ UNCHANGED <<input_path, output_path, input_str, output_str, buf,
                   pre, prev, lastClose, ncalls>>

\* lines 26-29
OpenInput(t) ==
    /\ pc[t] = "open"
    /\ IF CanOpen(fs, input_str[t])
       THEN /\ handles' = handles \cup {NewHandle(t, "in", input_str[t])}
            /\ pc' = [pc EXCEPT ![t] = "create"]
            /\ UNCHANGED ret
       ELSE /\ ret' = [ret EXCEPT ![t] = ERR_INPUT_OPEN]
            /\ pc' = [pc EXCEPT ![t] = "returned"]
            /\ UNCHANGED handles
    /\ UNCHANGED <<fs, input_path, output_path, input_str, output_str, buf,
                   pre, prev, lastClose, ncalls>>

\* the output opened without truncation: an existing file keeps its contents
CreateNoTruncate(f, p) == IF Exists(f, p) THEN f ELSE Truncated(f, p)

\* the next state of the filesystem when File::create(p) succeeds
CreateFS(f, p) == Truncated(f, p)

\* the early return leaves without closing the input
CreateFailedLeak == "returned"

\* where the call goes when File::create fails: input_file is still to be dropped
CreateFailedPc == "drop_in"

\* lines 31-34
CreateOutput(t) ==
    /\ pc[t] = "create"
    /\ IF CanCreate(fs, output_str[t])
       THEN /\ fs' = CreateFS(fs, output_str[t])
            /\ handles' = handles \cup {NewHandle(t, "out", output_str[t])}
            /\ pc' = [pc EXCEPT ![t] = "remux_read"]
            /\ UNCHANGED ret
       ELSE /\ ret' = [ret EXCEPT ![t] = ERR_OUTPUT_OPEN]
            /\ pc' = [pc EXCEPT ![t] = CreateFailedPc]
            /\ UNCHANGED <<fs, handles>>
    /\ UNCHANGED <<input_path, output_path, input_str, output_str, buf, pre,
                   prev, lastClose, ncalls>>

\* lines 36-41, the engine reads the next packet of the input stream.  At the
\* end of the stream it succeeds if it has seen a packet; on a packet that is
\* not valid, or a stream with no packet at all, it fails.
EngineRead(t) ==
    /\ pc[t] = "remux_read"
    /\ LET h == TheHandle(t, "in")
           data == fs[h.path]
       IN IF h.pos >= Len(data)
          THEN /\ ret' = [ret EXCEPT ![t] = RemuxStatus(h.pos > 0)]
               /\ pc' = [pc EXCEPT ![t] = "drop_out"]
               /\ UNCHANGED <<handles, buf>>
          ELSE IF data[h.pos + 1] \in ValidPackets
          THEN /\ buf' = [buf EXCEPT ![t] = data[h.pos + 1]]
               /\ handles' = (handles \ {h}) \cup {Advance(h)}
               /\ pc' = [pc EXCEPT ![t] = "remux_write"]
               /\ UNCHANGED ret
          ELSE /\ ret' = [ret EXCEPT ![t] = RemuxStatus(FALSE)]
               /\ pc' = [pc EXCEPT ![t] = "drop_out"]
               /\ UNCHANGED <<handles, buf>>
    /\ UNCHANGED <<fs, input_path, output_path, input_str, output_str, pre,
                   prev, lastClose, ncalls>>

\* lines 36-41, the engine writes the packet it has read to the output stream
EngineWrite(t) ==
    /\ pc[t] = "remux_write"
    /\ LET h == TheHandle(t, "out")
       IN /\ fs' = [fs EXCEPT ![h.path] = WriteAt(fs[h.path], h.pos, Optimize(buf[t]))]
          /\ handles' = (handles \ {h}) \cup {Advance(h)}
    /\ buf' = [buf EXCEPT ![t] = NoPacket]
    /\ pc' = [pc EXCEPT ![t] = "remux_read"]
    /\ UNCHANGED <<input_path, output_path, input_str, output_str, ret, pre,
                   prev, lastClose, ncalls>>

\* line 42, output_file goes out of scope (locals drop in reverse order)
DropOutput(t) ==
    /\ pc[t] = "drop_out"
    /\ handles' = handles \ HandlesOf(t, "out")
    /\ lastClose' = t
    /\ pc' = [pc EXCEPT ![t] = "drop_in"]
    /\ UNCHANGED <<fs, input_path, output_path, input_str, output_str, buf,
                   ret, pre, prev, ncalls>>

\* lines 33 and 42, input_file goes out of scope and the call returns
DropInput(t) ==
    /\ pc[t] = "drop_in"
    /\ handles' = handles \ HandlesOf(t, "in")
    /\ pc' = [pc EXCEPT ![t] = "returned"]
    /\ UNCHANGED <<fs, input_path, output_path, input_str, output_str, buf,
                   ret, pre, prev, lastClose, ncalls>>

Step(t) ==
    \/ CheckNull(t)
    \/ Decode(t)
    \/ OpenInput(t)
    \/ CreateOutput(t)
    \/ EngineRead(t)
    \/ EngineWrite(t)
    \/ DropOutput(t)
    \/ DropInput(t)

\* two threads, one call each, interleaved step by step
Next == \E t \in Threads : Call(t) \/ Step(t)

Spec == Init /\ [][Next]_vars

\* one call at a time
SeqNext == \E t \in Threads : SeqCall(t) \/ Step(t)

SeqSpec == Init /\ [][SeqNext]_vars


\* every thread that is inside a call keeps taking steps: the operating system
\* schedules each thread, and every system call of the bridge returns
FairSpec == Spec /\ \A t \in Threads : WF_vars(Step(t))

(***************************************************************************)
(* What a call does when nothing else touches its files, as functions of   *)
(* the filesystem at entry                                                 *)
(***************************************************************************)
\* the paths a call names
PathsOf(t) == {Memory[p] : p \in {input_path[t], output_path[t]} \ {NullPtr}}

InPath(t) == Memory[input_path[t]]
OutPath(t) == Memory[output_path[t]]

Decodable(t) ==
    /\ ~is_null(input_path[t]) /\ ~is_null(output_path[t])
    /\ to_str_ok(InPath(t)) /\ to_str_ok(OutPath(t))

\* the longest prefix of a container the engine accepts
RECURSIVE ValidPrefixLen(_, _)
ValidPrefixLen(data, n) ==
    IF n < Len(data) /\ data[n + 1] \in ValidPackets
    THEN ValidPrefixLen(data, n + 1) ELSE n

\* a valid non-trivial container: at least one packet, all of them valid
ValidContainer(data) == Len(data) > 0 /\ ValidPrefixLen(data, 0) = Len(data)

\* what the engine has written for a container when it returns
EngineOutput(data) == [i \in 1..ValidPrefixLen(data, 0) |-> Optimize(data[i])]

\* the input stream as the engine finds it once the output has been created
InputSeen(f, ip, op) == IF ip = op THEN <<>> ELSE f[ip]

(***************************************************************************)
(* C1: the failure conditions are checked in the order null pointer, text  *)
(* decoding, input open, output create, engine failure, and the call       *)
(* returns the code of the first one that holds (-1, -2, -3, -4, -5), or 0 *)
(* when none does.                                                         *)
(***************************************************************************)
ExpectedStatus(t) ==
    IF is_null(input_path[t]) \/ is_null(output_path[t]) THEN -1
    ELSE IF ~to_str_ok(InPath(t)) \/ ~to_str_ok(OutPath(t)) THEN -2
    ELSE IF ~CanOpen(pre[t], InPath(t)) THEN -3
    ELSE IF ~CanCreate(pre[t], OutPath(t)) THEN -4
    ELSE IF ~ValidContainer(InputSeen(pre[t], InPath(t), OutPath(t))) THEN -5
    ELSE 0

\* C1: a returned call's status is that of the first failure condition in order
C1_FirstFailureWins ==
    \A t \in Threads : pc[t] = "returned" => ret[t] = ExpectedStatus(t)

\* an undecodable output path together with a nonexistent input yields -2
C1_Witness ==
    \E t \in Threads :
        /\ pc[t] = "returned"
        /\ ~is_null(input_path[t]) /\ ~is_null(output_path[t])
        /\ to_str_ok(InPath(t)) /\ ~CanOpen(pre[t], InPath(t))
        /\ ~to_str_ok(OutPath(t))
        /\ ret[t] = -2

(***************************************************************************)
(* C2: a call with a null input pointer, a null output pointer or both     *)
(* returns -1; during the call no handle is opened, the filesystem stays   *)
(* as it was at entry and the engine is never reached.                     *)
(***************************************************************************)
C2_NullTouchesNothing ==
    \A t \in Threads :
        (pc[t] # "idle" /\ (is_null(input_path[t]) \/ is_null(output_path[t]))) =>
            /\ pc[t] \in {"check_null", "returned"}
            /\ HandlesOf(t, "in") = {} /\ HandlesOf(t, "out") = {}
            /\ fs = pre[t]
            /\ pc[t] = "returned" => ret[t] = -1

\* only the output pointer is null, and the input names an existing file
C2_Witness ==
    \E t \in Threads :
        /\ pc[t] = "returned" /\ ret[t] = -1
        /\ ~is_null(input_path[t]) /\ is_null(output_path[t])
        /\ Exists(fs, InPath(t))

(***************************************************************************)
(* C3: with both pointers non-null and decodable and an input that cannot  *)
(* be opened, the call returns -3 and the output path is untouched: not    *)
(* created if absent, not truncated if present.                            *)
(***************************************************************************)
C3_InputOpenFailureLeavesOutput ==
    \A t \in Threads :
        (pc[t] # "idle" /\ Decodable(t) /\ ~CanOpen(pre[t], InPath(t))) =>
            /\ HandlesOf(t, "out") = {}
            /\ fs = pre[t]
            /\ pc[t] = "returned" => ret[t] = -3

\* the output names an existing, non-empty file and the input does not exist
C3_Witness ==
    \E t \in Threads :
        /\ pc[t] = "returned" /\ ret[t] = -3
        /\ Decodable(t)
        /\ Exists(pre[t], OutPath(t)) /\ Len(pre[t][OutPath(t)]) > 0
        /\ fs[OutPath(t)] = pre[t][OutPath(t)]

(***************************************************************************)
(* C4: a call holds at most one input handle and at most one output        *)
(* handle, none before the input open, and none once it has returned, on   *)
(* every exit path.                                                        *)
(***************************************************************************)
C4_HandlesReleased ==
    \A t \in Threads :
        /\ Cardinality(HandlesOf(t, "in")) <= 1
        /\ Cardinality(HandlesOf(t, "out")) <= 1
        /\ pc[t] \in {"idle", "check_null", "decode", "open", "returned"} =>
               HandlesOf(t, "in") \cup HandlesOf(t, "out") = {}

\* one call has returned -4 and the other -5, and no handle is left open
C4_Witness ==
    \E t, u \in Threads :
        /\ pc[t] = "returned" /\ ret[t] = -4
        /\ pc[u] = "returned" /\ ret[u] = -5
        /\ handles = {}

(***************************************************************************)
(* C5: two concurrent calls with disjoint path arguments both complete,    *)
(* and under every interleaving each returns the status and leaves the     *)
(* output file contents it would if it ran alone.                          *)
(***************************************************************************)
Disjoint(t, u) == PathsOf(t) \cap PathsOf(u) = {}

\* the output file of t's call is as a call running alone leaves it
SoloOutputFile(t) ==
    IF ExpectedStatus(t) \in {0, -5}
    THEN /\ Exists(fs, OutPath(t))
         /\ fs[OutPath(t)] = EngineOutput(InputSeen(pre[t], InPath(t), OutPath(t)))
    ELSE Decodable(t) =>
            /\ Exists(fs, OutPath(t)) <=> Exists(pre[t], OutPath(t))
            /\ Exists(fs, OutPath(t)) => fs[OutPath(t)] = pre[t][OutPath(t)]

\* a returned call whose paths no other call names has the results of a call
\* running alone
IndependentResults ==
    \A t \in Threads :
        (pc[t] = "returned" /\ \A u \in Threads \ {t} : pc[u] = "idle" \/ Disjoint(t, u)) =>
            /\ ret[t] = ExpectedStatus(t)
            /\ SoloOutputFile(t)

\* C5: calls on disjoint paths have independent results, and every call that
\* was entered returns
C5_DisjointCallsIndependent ==
    /\ []IndependentResults
    /\ \A t \in Threads : (pc[t] = "check_null") ~> (pc[t] = "returned")

\* both calls ran on disjoint files, overlapped in time, and both succeeded
C5_Witness ==
    \E t, u \in Threads :
        /\ t # u /\ Disjoint(t, u)
        /\ pc[t] = "returned" /\ ret[t] = 0
        /\ pc[u] = "returned" /\ ret[u] = 0
        /\ fs[OutPath(t)] = EngineOutput(pre[t][InPath(t)])
        /\ fs[OutPath(u)] = EngineOutput(pre[u][InPath(u)])
        /\ Exists(pre[t], OutPath(u)) => pre[t][OutPath(u)] # fs[OutPath(u)]
        /\ Exists(pre[u], OutPath(t)) => pre[u][OutPath(t)] # fs[OutPath(t)]

(***************************************************************************)
(* C6: two concurrent calls with different valid inputs and the same       *)
(* output path.                                                            *)
(***************************************************************************)
\* both calls have returned, they share the creatable output path, and their
\* inputs are different valid containers in files other than the output
SharedOutputDone(t, u) ==
    /\ t # u
    /\ pc[t] = "returned" /\ pc[u] = "returned"
    /\ Decodable(t) /\ Decodable(u)
    /\ OutPath(t) = OutPath(u) /\ CanCreate(pre[t], OutPath(t))
    /\ InPath(t) # OutPath(t) /\ InPath(u) # OutPath(u) /\ InPath(t) # InPath(u)
    /\ Exists(pre[t], InPath(t)) /\ ValidContainer(pre[t][InPath(t)])
    /\ Exists(pre[u], InPath(u)) /\ ValidContainer(pre[u][InPath(u)])

\* C6 as claimed: the last writer to close its output handle wins, the
\* output file holds exactly what that call would have produced alone
C6_LastCloserWins ==
    \A t, u \in Threads :
        (SharedOutputDone(t, u) /\ lastClose = t) =>
            fs[OutPath(t)] = EngineOutput(pre[t][InPath(t)])

\* C6 as amended: both calls return 0 and the output file is a position-wise
\* mixture: it is no longer than the longer of the two solo outputs, and each
\* position holds the packet one of the two calls writes there when it runs
\* alone, or the zero fill of a write that landed beyond the end of the file
\* after the other call's truncate
C6_PositionwiseMixture ==
    \A t, u \in Threads :
        SharedOutputDone(t, u) =>
            LET a == EngineOutput(pre[t][InPath(t)])
                b == EngineOutput(pre[u][InPath(u)])
                f == fs[OutPath(t)]
            IN /\ ret[t] = 0 /\ ret[u] = 0
               /\ Len(f) >= 1
               /\ Len(f) <= Len(a) \/ Len(f) <= Len(b)
               /\ \A i \in 1..Len(f) :
                    \/ i <= Len(a) /\ f[i] = a[i]
                    \/ i <= Len(b) /\ f[i] = b[i]
                    \/ f[i] = ZeroFill

\* the file holds packets of both calls and a gap, and is neither solo output
C6_Witness ==
    \E t, u \in Threads :
        /\ SharedOutputDone(t, u)
        /\ fs[OutPath(t)] # EngineOutput(pre[t][InPath(t)])
        /\ fs[OutPath(t)] # EngineOutput(pre[u][InPath(u)])
        /\ \E i \in 1..Len(fs[OutPath(t)]) : fs[OutPath(t)][i] = ZeroFill

(***************************************************************************)
(* C7: a call with non-null decodable pointers, an input file holding a    *)
(* valid non-trivial container and a creatable output location returns 0,  *)
(* and afterwards the output exists, is non-empty and holds what the       *)
(* engine writes for that input.                                           *)
(***************************************************************************)
ValidCall(t) ==
    /\ Decodable(t)
    /\ Exists(pre[t], InPath(t)) /\ ValidContainer(pre[t][InPath(t)])
    /\ CanCreate(pre[t], OutPath(t))

\* C7 as claimed: a valid call returns 0 and leaves the engine's output
C7_ValidCallSucceeds ==
    \A t \in Threads :
        (pc[t] = "returned" /\ ValidCall(t)) =>
            /\ ret[t] = 0
            /\ Exists(fs, OutPath(t))
            /\ Len(fs[OutPath(t)]) > 0
            /\ fs[OutPath(t)] = EngineOutput(pre[t][InPath(t)])

(***************************************************************************)
(* C8: if a call (x, y) returned 0, a following call (y, z) with z         *)
(* creatable and distinct from y returns 0 as well.                        *)
(***************************************************************************)
Rerun(t) ==
    /\ pc[t] = "returned"
    /\ prev[t].status = 0
    /\ Decodable(t)
    /\ InPath(t) = Memory[prev[t].out]
    /\ OutPath(t) # InPath(t)
    /\ CanCreate(pre[t], OutPath(t))

\* C8: the bridge succeeds on its own successful output
C8_RerunSucceeds == \A t \in Threads : Rerun(t) => ret[t] = 0

\* the second call has read the first call's output and written its own
C8_Witness ==
    \E t \in Threads :
        /\ Rerun(t) /\ ret[t] = 0
        /\ Memory[prev[t].inp] # OutPath(t)
        /\ fs[OutPath(t)] = fs[InPath(t)]
        /\ Len(fs[OutPath(t)]) > 1

(***************************************************************************)
(* C9: when the call returns -5 the output path exists and holds only what *)
(* the engine wrote before failing, whatever the file held before; when    *)
(* the output create fails (-4) the filesystem is as it was.               *)
(***************************************************************************)
C9_FailureLeavesEngineOutput ==
    \A t \in Threads :
        pc[t] = "returned" =>
            /\ ret[t] = -5 =>
                 /\ Exists(fs, OutPath(t))
                 /\ fs[OutPath(t)] = EngineOutput(InputSeen(pre[t], InPath(t), OutPath(t)))
            /\ ret[t] = -4 => fs = pre[t]

\* the output held a longer file, and holds the one packet written before
\* the engine met the corrupt packet
C9_Witness ==
    \E t \in Threads :
        /\ pc[t] = "returned" /\ ret[t] = -5
        /\ Exists(pre[t], OutPath(t))
        /\ Len(pre[t][OutPath(t)]) > Len(fs[OutPath(t)])
        /\ Len(fs[OutPath(t)]) > 0

(***************************************************************************)
(* C10: whatever status a call returns, the file named by its input path   *)
(* holds after the call what it held before, also when the input path and  *)
(* the output path name the same file.                                     *)
(***************************************************************************)
C10_InputUnchanged ==
    \A t \in Threads :
        (pc[t] = "returned" /\ Decodable(t) /\ Exists(pre[t], InPath(t))) =>
            fs[InPath(t)] = pre[t][InPath(t)]
====
